---- MODULE Spec2Model ----
(***************************************************************************)
(* Model of the MCP middleware of social-mcp-agent: the MessageRouter, the *)
(* CapabilityRegistry and the agent registration of McpMiddleware          *)
(* (src/src/middleware/mcp-middleware.js), with the BaseAgent tool and     *)
(* resource lists (src/src/agents/content-analysis-agent.js).              *)
(*                                                                         *)
(* JavaScript values are modelled as records with the fields of the        *)
(* objects the code builds.  A call completes either by returning a value  *)
(* or by throwing one (for an async function: the promise resolves or      *)
(* rejects); Return and Throw build the two completions.  A JavaScript Map  *)
(* is a sequence of [key, value] entries in insertion order.  Names        *)
(* (methods, tools, resources) are the numbers 1..N; 0 stands for a missing *)
(* name (undefined or the empty string, both falsy).                       *)
(***************************************************************************)
EXTENDS Integers, Sequences, FiniteSets, TLC

VARIABLES
  routes,          \* MessageRouter.routes
  tools,           \* CapabilityRegistry.tools
  resources,       \* CapabilityRegistry.resources
  agents,          \* McpMiddleware.agents
  agentTools,      \* BaseAgent.tools of every agent instance
  agentResources,  \* BaseAgent.resources of every agent instance
  running,             \* BaseAgent.running of every agent instance
  queueInterval,       \* ContentAnalysisAgent.queueInterval of every instance
  timers,              \* the intervals of every instance that setInterval has
                       \* scheduled and clearInterval has not cleared
  analyzeQueue,        \* ContentAnalysisAgent.analyzeQueue of every instance
  processingAnalysis,  \* ContentAnalysisAgent.processingAnalysis
  task,                \* the task a queue callback of the instance is executing
  listeners,           \* the number of 'analysis-completed' listeners of
                       \* every instance
  app_agents,       \* SocialMcpAgentApp.agents
  app_initialized,  \* SocialMcpAgentApp.initialized
  app_started,      \* SocialMcpAgentApp.started
  initialized,      \* McpMiddleware.initialized
  exited,           \* the exit code of the process, or "no" while it runs
  signalHandler,    \* where the handler of each signal is in its
                    \* await app.stop()
  serverShutdowns,  \* the calls of server.shutdown() made so far
  transportCloses,  \* the calls of transport.close() made so far
  analysisResults,  \* ContentAnalysisAgent.analysisResults of the agent whose
                    \* analysis methods are called
  now,              \* the clock: Date.now(), new Date()
  analyses,         \* the analysis operations called on the agent so far
  last             \* the most recent call: its name, argument, the handlers
                   \* it invoked, the events it emitted and its completion

\* the fields of the agent objects beside their tool and resource lists
agentVars == <<running, queueInterval, timers, analyzeQueue, processingAnalysis, task,
              listeners>>
\* the fields of the application object, of the middleware and the process
signalVars == <<signalHandler, serverShutdowns, transportCloses>>
\* the analysis results of a content-analysis agent, and the clock
analysisVars == <<analysisResults, now, analyses>>
appVars == <<app_agents, app_initialized, app_started, initialized, exited, signalVars,
             analysisVars>>

vars == <<routes, tools, resources, agents, agentTools, agentResources,
          agentVars, appVars, last>>

---------------------------------------------------------------------------
(* Bounds of the model *)

NumMethods == 2        \* method names 1..NumMethods
MaxId == 2             \* request ids 1..MaxId
MaxParam == 1          \* params values 0..MaxParam
NumNames == 2          \* tool names 1..NumNames
NumResourceNames == 1  \* resource names 1..NumResourceNames
NumInsts == 3          \* agent instances 1..NumInsts
MaxRegistrations == 2  \* descriptors held by all agent instances together

Methods == 1..NumMethods
Ids == 1..MaxId
ParamValues == 0..MaxParam
Names == 1..NumNames
ResourceNames == 1..NumResourceNames
Insts == 1..NumInsts

---------------------------------------------------------------------------
(* JavaScript completions, errors and Map *)

Return(v) == [type |-> "return", value |-> v]
Throw(v) == [type |-> "throw", value |-> v]

undefined == [undefined |-> TRUE]

\* new Error(message): every throw of the repository throws an Error
Error(message) == [name |-> "Error", message |-> message]
\* the TypeError of calling a value that is not a function
TypeError(message) == [name |-> "TypeError", message |-> message]

MapHas(m, k) == \E i \in 1..Len(m) : m[i].key = k
MapIndex(m, k) == CHOOSE i \in 1..Len(m) : m[i].key = k
MapGet(m, k) == m[MapIndex(m, k)].value
\* Map.prototype.set keeps the position of a key that is already present
MapSet(m, k, v) ==
  IF MapHas(m, k)
    THEN [m EXCEPT ![MapIndex(m, k)] = [key |-> k, value |-> v]]
    ELSE Append(m, [key |-> k, value |-> v])
MapDelete(m, k) == SelectSeq(m, LAMBDA e : e.key # k)
MapKeys(m) == [i \in 1..Len(m) |-> m[i].key]
MapValues(m) == [i \in 1..Len(m) |-> m[i].value]

Range(s) == {s[i] : i \in 1..Len(s)}

\* The value of last when the most recent operation is none of the recorded
\* calls
NoCall == [op |-> "none", arg |-> undefined, invoked |-> <<>>,
           completion |-> Return(undefined)]

---------------------------------------------------------------------------
(* MessageRouter *)

\* The functions a caller may register as route handlers: one that answers
\* with a JSON-RPC result envelope for the request, one that returns a value
\* of its own that is no envelope, one that throws.
RouteHandlers == {"respond", "bare", "throws"}

CallRouteHandler(handler, message) ==
  CASE handler = "respond" ->
         Return([jsonrpc |-> "2.0", id |-> message.id, result |-> message.params])
    [] handler = "bare" -> Return([content |-> message.params])
    [] handler = "throws" -> Throw(Error("boom"))

MethodNotFound == -32601
InternalError == -32000

registerRoute(routesMap, method, handler) == MapSet(routesMap, method, handler)

\* Faulty variants of routeMessage (no try/catch; the internal-error code for
\* a missing route; the method-not-found code for a throwing handler): the
\* properties of the router are shown to fail for them.
routeMessage_rethrows(routesMap, message) ==
  IF ~MapHas(routesMap, message.method)
    THEN [routes |-> routesMap, invoked |-> <<>>,
          completion |-> Return([jsonrpc |-> "2.0", id |-> message.id,
                                 error |-> [code |-> MethodNotFound,
                                            message |-> <<"Methode non trouvee", message.method>>]])]
    ELSE [routes |-> routesMap, invoked |-> <<MapGet(routesMap, message.method)>>,
          completion |-> CallRouteHandler(MapGet(routesMap, message.method), message)]

routeMessage_internalForMissing(routesMap, message) ==
  IF ~MapHas(routesMap, message.method)
    THEN [routes |-> routesMap, invoked |-> <<>>,
          completion |-> Return([jsonrpc |-> "2.0", id |-> message.id,
                                 error |-> [code |-> InternalError,
                                            message |-> <<"Methode non trouvee", message.method>>]])]
    ELSE LET handler == MapGet(routesMap, message.method)
             c == CallRouteHandler(handler, message)
         IN [routes |-> routesMap, invoked |-> <<handler>>,
             completion |->
               IF c.type = "return" THEN c
               ELSE Return([jsonrpc |-> "2.0", id |-> message.id,
                            error |-> [code |-> InternalError,
                                       message |-> <<"Erreur interne", c.value.message>>]])]

routeMessage_notFoundForThrow(routesMap, message) ==
  IF ~MapHas(routesMap, message.method)
    THEN [routes |-> routesMap, invoked |-> <<>>,
          completion |-> Return([jsonrpc |-> "2.0", id |-> message.id,
                                 error |-> [code |-> MethodNotFound,
                                            message |-> <<"Methode non trouvee", message.method>>]])]
    ELSE LET handler == MapGet(routesMap, message.method)
             c == CallRouteHandler(handler, message)
         IN [routes |-> routesMap, invoked |-> <<handler>>,
             completion |->
               IF c.type = "return" THEN c
               ELSE Return([jsonrpc |-> "2.0", id |-> message.id,
                            error |-> [code |-> MethodNotFound,
                                       message |-> <<"Erreur interne", c.value.message>>]])]

\* routeMessage(message): the route table after the call, the handlers it
\* invoked and its completion
routeMessage(routesMap, message) ==
  IF ~MapHas(routesMap, message.method)
    THEN [routes |-> routesMap, invoked |-> <<>>,
          completion |-> Return([jsonrpc |-> "2.0", id |-> message.id,
                                 error |-> [code |-> MethodNotFound,
                                            message |-> <<"Methode non trouvee", message.method>>]])]
    ELSE LET handler == MapGet(routesMap, message.method)
             c == CallRouteHandler(handler, message)
         IN [routes |-> routesMap, invoked |-> <<handler>>,
             completion |->
               IF c.type = "return" THEN c
               ELSE Return([jsonrpc |-> "2.0", id |-> message.id,
                            error |-> [code |-> InternalError,
                                       message |-> <<"Erreur interne", c.value.message>>]])]

Messages == [id : Ids, method : Methods, params : ParamValues]

RegisterRoute(method, handler) ==
  /\ routes' = registerRoute(routes, method, handler)
  /\ last' = [op |-> "registerRoute", arg |-> [method |-> method, handler |-> handler],
              invoked |-> <<>>, completion |-> Return(undefined)]
  /\ UNCHANGED <<tools, resources, agents, agentTools, agentResources, agentVars, appVars>>

RouteMessage(message) ==
  LET r == routeMessage(routes, message)
  IN /\ routes' = r.routes
     /\ last' = [op |-> "routeMessage", arg |-> message,
                 invoked |-> r.invoked, completion |-> r.completion]
     /\ UNCHANGED <<tools, resources, agents, agentTools, agentResources, agentVars, appVars>>

---------------------------------------------------------------------------
(* CapabilityRegistry *)

\* The values a descriptor may carry as its handler: none, a function that
\* returns a result, a function that throws, a value that is not a function.
HandlerValues == {"undefined", "returns", "throws", "notAFunction"}

\* tool.handler(params) / resource.handler(params)
CallHandler(handler, params) ==
  CASE handler = "returns" -> Return([content |-> params])
    [] handler = "throws" -> Throw(Error("boom"))
    [] OTHER -> Throw(TypeError("handler is not a function"))

registerTool_keepsFirst(toolsMap, tool) ==
  IF tool.name = 0 \/ tool.handler = "undefined"
    THEN [tools |-> toolsMap,
          completion |-> Throw(Error("Un outil doit avoir un nom et un gestionnaire"))]
    ELSE [tools |-> IF MapHas(toolsMap, tool.name) THEN toolsMap
                    ELSE MapSet(toolsMap, tool.name, tool),
          completion |-> Return(undefined)]

registerTool_noHandlerCheck(toolsMap, tool) ==
  IF tool.name = 0
    THEN [tools |-> toolsMap,
          completion |-> Throw(Error("Un outil doit avoir un nom et un gestionnaire"))]
    ELSE [tools |-> MapSet(toolsMap, tool.name, tool), completion |-> Return(undefined)]

\* registerTool(tool): the tool map after the call and the completion
registerTool(toolsMap, tool) ==
  IF tool.name = 0 \/ tool.handler = "undefined"
    THEN [tools |-> toolsMap,
          completion |-> Throw(Error("Un outil doit avoir un nom et un gestionnaire"))]
    ELSE [tools |-> MapSet(toolsMap, tool.name, tool), completion |-> Return(undefined)]

unregisterTool(toolsMap, name) ==
  IF MapHas(toolsMap, name) THEN MapDelete(toolsMap, name) ELSE toolsMap

registerResource(resourcesMap, resource) ==
  IF resource.name = 0 \/ resource.handler = "undefined"
    THEN [resources |-> resourcesMap,
          completion |-> Throw(Error("Une ressource doit avoir un nom et un gestionnaire"))]
    ELSE [resources |-> MapSet(resourcesMap, resource.name, resource),
          completion |-> Return(undefined)]

unregisterResource(resourcesMap, name) ==
  IF MapHas(resourcesMap, name) THEN MapDelete(resourcesMap, name) ELSE resourcesMap

\* The request handlers CapabilityRegistry.initialize installs on the server

toolsList(toolsMap) == Return([tools |-> MapValues(toolsMap)])

toolsCall_rethrows(toolsMap, params) ==
  IF ~MapHas(toolsMap, params.name)
    THEN [tools |-> toolsMap, invoked |-> <<>>,
          completion |-> Throw(Error(<<"Outil non trouve", params.name>>))]
    ELSE [tools |-> toolsMap, invoked |-> <<MapGet(toolsMap, params.name)>>,
          completion |-> CallHandler(MapGet(toolsMap, params.name).handler, params.params)]

toolsCall_notFoundResult(toolsMap, params) ==
  IF ~MapHas(toolsMap, params.name)
    THEN [tools |-> toolsMap, invoked |-> <<>>,
          completion |-> Return([isError |-> TRUE,
                                 content |-> [message |-> <<"Outil non trouve", params.name>>]])]
    ELSE LET tool == MapGet(toolsMap, params.name)
             c == CallHandler(tool.handler, params.params)
         IN [tools |-> toolsMap, invoked |-> <<tool>>,
             completion |->
               IF c.type = "return" THEN c
               ELSE Return([isError |-> TRUE,
                            content |-> [message |-> <<"Erreur", c.value.message>>]])]

\* call(params): the tool map after the call, the tools whose handler was
\* invoked and the completion
toolsCall(toolsMap, params) ==
  IF ~MapHas(toolsMap, params.name)
    THEN [tools |-> toolsMap, invoked |-> <<>>,
          completion |-> Throw(Error(<<"Outil non trouve", params.name>>))]
    ELSE LET tool == MapGet(toolsMap, params.name)
             c == CallHandler(tool.handler, params.params)
         IN [tools |-> toolsMap, invoked |-> <<tool>>,
             completion |->
               IF c.type = "return" THEN c
               ELSE Return([isError |-> TRUE,
                            content |-> [message |-> <<"Erreur", c.value.message>>]])]

resourcesList(resourcesMap) == Return([resources |-> MapValues(resourcesMap)])

resourcesGet_converts(resourcesMap, params) ==
  IF ~MapHas(resourcesMap, params.name)
    THEN [resources |-> resourcesMap, invoked |-> <<>>,
          completion |-> Throw(Error(<<"Ressource non trouvee", params.name>>))]
    ELSE LET resource == MapGet(resourcesMap, params.name)
             c == CallHandler(resource.handler, params.params)
         IN [resources |-> resourcesMap, invoked |-> <<resource>>,
             completion |->
               IF c.type = "return" THEN c
               ELSE Return([isError |-> TRUE,
                            content |-> [message |-> <<"Erreur", c.value.message>>]])]

\* get(params): the catch block logs and throws the error again
resourcesGet(resourcesMap, params) ==
  IF ~MapHas(resourcesMap, params.name)
    THEN [resources |-> resourcesMap, invoked |-> <<>>,
          completion |-> Throw(Error(<<"Ressource non trouvee", params.name>>))]
    ELSE LET resource == MapGet(resourcesMap, params.name)
             c == CallHandler(resource.handler, params.params)
         IN [resources |-> resourcesMap, invoked |-> <<resource>>,
             completion |-> IF c.type = "return" THEN c ELSE Throw(c.value)]

\* The descriptors a caller may hand to the registry
ToolDescriptors == [name : 0..NumNames, handler : HandlerValues]
ResourceDescriptors == [name : 0..NumResourceNames, handler : HandlerValues]
ToolRequests == [name : Names, params : ParamValues]
ResourceRequests == [name : ResourceNames, params : ParamValues]

RegisterTool(tool) ==
  LET r == registerTool(tools, tool)
  IN /\ tools' = r.tools
     /\ last' = [op |-> "registerTool", arg |-> tool, invoked |-> <<>>,
                 completion |-> r.completion]
     /\ UNCHANGED <<routes, resources, agents, agentTools, agentResources, agentVars, appVars>>

UnregisterTool(name) ==
  /\ tools' = unregisterTool(tools, name)
  /\ last' = [op |-> "unregisterTool", arg |-> [name |-> name], invoked |-> <<>>,
              completion |-> Return(undefined)]
  /\ UNCHANGED <<routes, resources, agents, agentTools, agentResources, agentVars, appVars>>

RegisterResource(resource) ==
  LET r == registerResource(resources, resource)
  IN /\ resources' = r.resources
     /\ last' = [op |-> "registerResource", arg |-> resource, invoked |-> <<>>,
                 completion |-> r.completion]
     /\ UNCHANGED <<routes, tools, agents, agentTools, agentResources, agentVars, appVars>>

UnregisterResource(name) ==
  /\ resources' = unregisterResource(resources, name)
  /\ last' = [op |-> "unregisterResource", arg |-> [name |-> name], invoked |-> <<>>,
              completion |-> Return(undefined)]
  /\ UNCHANGED <<routes, tools, agents, agentTools, agentResources, agentVars, appVars>>

ToolsList ==
  /\ last' = [op |-> "tools.list", arg |-> undefined, invoked |-> <<>>,
              completion |-> toolsList(tools)]
  /\ UNCHANGED <<routes, tools, resources, agents, agentTools, agentResources, agentVars, appVars>>

ToolsCall(params) ==
  LET r == toolsCall(tools, params)
  IN /\ tools' = r.tools
     /\ last' = [op |-> "tools.call", arg |-> params, invoked |-> r.invoked,
                 completion |-> r.completion]
     /\ UNCHANGED <<routes, resources, agents, agentTools, agentResources, agentVars, appVars>>

ResourcesList ==
  /\ last' = [op |-> "resources.list", arg |-> undefined, invoked |-> <<>>,
              completion |-> resourcesList(resources)]
  /\ UNCHANGED <<routes, tools, resources, agents, agentTools, agentResources, agentVars, appVars>>

ResourcesGet(params) ==
  LET r == resourcesGet(resources, params)
  IN /\ resources' = r.resources
     /\ last' = [op |-> "resources.get", arg |-> params, invoked |-> r.invoked,
                 completion |-> r.completion]
     /\ UNCHANGED <<routes, tools, agents, agentTools, agentResources, agentVars, appVars>>

---------------------------------------------------------------------------
(* BaseAgent tool and resource lists, McpMiddleware agent registration *)

\* The agent classes of the repository construct their instances with these
\* ids; odd instances are ContentAnalysisAgent objects, even ones TwitterAgent
\* objects, so that an id may be carried by more than one object.
AgentIds == {"content-analysis", "twitter"}
AgentIdOf(agent) == IF agent % 2 = 1 THEN "content-analysis" ELSE "twitter"

AgentHandlerValues == {"undefined", "returns"}
DescriptionValues == {"undefined", "text"}

\* Total number of descriptors in the lists of all agent instances
RECURSIVE SumLen(_, _)
SumLen(lists, n) == IF n = 0 THEN 0 ELSE Len(lists[n]) + SumLen(lists, n - 1)
Registrations == SumLen(agentTools, NumInsts) + SumLen(agentResources, NumInsts)

\* BaseAgent.registerTool(tool): the list after the call and the completion
BaseAgent_registerTool(list, id, tool) ==
  IF tool.name = 0 \/ tool.description = "undefined" \/ tool.handler = "undefined"
    THEN [list |-> list,
          completion |-> Throw(Error("Un outil doit avoir un nom, une description et un gestionnaire"))]
    ELSE LET toolWithAgent == [name |-> tool.name, description |-> tool.description,
                               handler |-> tool.handler, agentId |-> id]
         IN [list |-> Append(list, toolWithAgent), completion |-> Return(toolWithAgent)]

\* BaseAgent.registerResource(resource)
BaseAgent_registerResource(list, id, resource) ==
  IF resource.name = 0 \/ resource.description = "undefined" \/ resource.handler = "undefined"
    THEN [list |-> list,
          completion |-> Throw(Error("Une ressource doit avoir un nom, une description et un gestionnaire"))]
    ELSE LET resourceWithAgent == [name |-> resource.name, description |-> resource.description,
                                   handler |-> resource.handler, agentId |-> id]
         IN [list |-> Append(list, resourceWithAgent), completion |-> Return(resourceWithAgent)]

getTools(agent) == agentTools[agent]
getResources(agent) == agentResources[agent]

\* tools.forEach(tool => this.capabilityRegistry.registerTool(tool)): a throw
\* of registerTool ends the loop
RECURSIVE forEachRegisterTool(_, _)
forEachRegisterTool(toolsMap, list) ==
  IF list = <<>> THEN [tools |-> toolsMap, completion |-> Return(undefined)]
  ELSE LET r == registerTool(toolsMap, Head(list))
       IN IF r.completion.type = "throw" THEN r
          ELSE forEachRegisterTool(r.tools, Tail(list))

RECURSIVE forEachRegisterResource(_, _)
forEachRegisterResource(resourcesMap, list) ==
  IF list = <<>> THEN [resources |-> resourcesMap, completion |-> Return(undefined)]
  ELSE LET r == registerResource(resourcesMap, Head(list))
       IN IF r.completion.type = "throw" THEN r
          ELSE forEachRegisterResource(r.resources, Tail(list))

RECURSIVE forEachUnregisterTool(_, _)
forEachUnregisterTool(toolsMap, list) ==
  IF list = <<>> THEN toolsMap
  ELSE forEachUnregisterTool(unregisterTool(toolsMap, Head(list).name), Tail(list))

RECURSIVE forEachUnregisterResource(_, _)
forEachUnregisterResource(resourcesMap, list) ==
  IF list = <<>> THEN resourcesMap
  ELSE forEachUnregisterResource(unregisterResource(resourcesMap, Head(list).name), Tail(list))

registerAgent_rejectsDuplicate(id, agent) ==
  IF MapHas(agents, id)
    THEN [agents |-> agents, tools |-> tools, resources |-> resources,
          completion |-> Return(undefined)]
    ELSE [agents |-> MapSet(agents, id, agent),
          tools |-> forEachRegisterTool(tools, getTools(agent)).tools,
          resources |-> forEachRegisterResource(resources, getResources(agent)).resources,
          completion |-> Return(undefined)]

registerAgentWith_agentsOnly(agentsMap, toolsMap, resourcesMap, toolList, resourceList, id, agent) ==
  [agents |-> MapSet(agentsMap, id, agent), tools |-> toolsMap,
   resources |-> resourcesMap, completion |-> Return(undefined)]

\* registerAgent(id, agent) on the given agents map and registry, for an
\* agent with the given lists: the maps after the call, and the completion
registerAgentWith(agentsMap, toolsMap, resourcesMap, toolList, resourceList, id, agent) ==
  LET t == forEachRegisterTool(toolsMap, toolList)
      r == forEachRegisterResource(resourcesMap, resourceList)
  IN IF t.completion.type = "throw"
       THEN [agents |-> MapSet(agentsMap, id, agent), tools |-> t.tools,
             resources |-> resourcesMap, completion |-> t.completion]
       ELSE [agents |-> MapSet(agentsMap, id, agent), tools |-> t.tools,
             resources |-> r.resources, completion |-> r.completion]

\* registerAgent(id, agent) in the current state
registerAgent(id, agent) ==
  registerAgentWith(agents, tools, resources, getTools(agent), getResources(agent),
                    id, agent)

\* unregisterAgent(id)
unregisterAgent(id) ==
  IF ~MapHas(agents, id)
    THEN [agents |-> agents, tools |-> tools, resources |-> resources]
    ELSE LET agent == MapGet(agents, id)
         IN [agents |-> MapDelete(agents, id),
             tools |-> forEachUnregisterTool(tools, getTools(agent)),
             resources |-> forEachUnregisterResource(resources, getResources(agent))]

AgentToolDescriptors ==
  [name : 0..NumNames, description : DescriptionValues, handler : AgentHandlerValues]
AgentResourceDescriptors ==
  [name : 0..NumResourceNames, description : DescriptionValues, handler : AgentHandlerValues]

AgentRegisterTool(agent, tool) ==
  LET r == BaseAgent_registerTool(agentTools[agent], AgentIdOf(agent), tool)
  IN /\ Registrations < MaxRegistrations
     /\ agentTools' = [agentTools EXCEPT ![agent] = r.list]
     /\ last' = NoCall
     /\ UNCHANGED <<routes, tools, resources, agents, agentResources, agentVars, appVars>>

AgentRegisterResource(agent, resource) ==
  LET r == BaseAgent_registerResource(agentResources[agent], AgentIdOf(agent), resource)
  IN /\ Registrations < MaxRegistrations
     /\ agentResources' = [agentResources EXCEPT ![agent] = r.list]
     /\ last' = NoCall
     /\ UNCHANGED <<routes, tools, resources, agents, agentTools, agentVars, appVars>>

\* mcpMiddleware.registerAgent(agent.id, agent), as the application calls it
RegisterAgent(agent) ==
  LET r == registerAgent(AgentIdOf(agent), agent)
  IN /\ agents' = r.agents
     /\ tools' = r.tools
     /\ resources' = r.resources
     /\ last' = [op |-> "registerAgent", arg |-> [id |-> AgentIdOf(agent), agent |-> agent],
                 invoked |-> <<>>, completion |-> r.completion]
     /\ UNCHANGED <<routes, agentTools, agentResources, agentVars, appVars>>

UnregisterAgent(id) ==
  LET r == unregisterAgent(id)
  IN /\ agents' = r.agents
     /\ tools' = r.tools
     /\ resources' = r.resources
     /\ last' = NoCall
     /\ UNCHANGED <<routes, agentTools, agentResources, agentVars, appVars>>

---------------------------------------------------------------------------
(* The agent classes: BaseAgent, ContentAnalysisAgent, TwitterAgent *)

MaxInitializes == 3    \* initialize() calls on one agent instance
MaxTimers == 2         \* intervals of one instance scheduled at a time
MaxTasks == 2          \* analysis tasks 1..MaxTasks

Tasks == 1..MaxTasks

\* The names of the tools and resources the agent classes register
analyze_text == 1
analyze_image == 2
analyze_post == 3
search_tweets == 4
content_analysis_results == 1

\* An agent object: the fields of instance a
This(a) ==
  [tools |-> agentTools[a], resources |-> agentResources[a],
   running |-> running[a], queueInterval |-> queueInterval[a],
   timers |-> timers[a], analyzeQueue |-> analyzeQueue[a],
   processingAnalysis |-> processingAnalysis[a], task |-> task[a],
   listeners |-> listeners[a]]

\* All agent objects
Objects == [a \in Insts |-> This(a)]

\* The agent objects become objs
Store(objs) ==
  /\ agentTools' = [a \in Insts |-> objs[a].tools]
  /\ agentResources' = [a \in Insts |-> objs[a].resources]
  /\ running' = [a \in Insts |-> objs[a].running]
  /\ queueInterval' = [a \in Insts |-> objs[a].queueInterval]
  /\ timers' = [a \in Insts |-> objs[a].timers]
  /\ analyzeQueue' = [a \in Insts |-> objs[a].analyzeQueue]
  /\ processingAnalysis' = [a \in Insts |-> objs[a].processingAnalysis]
  /\ task' = [a \in Insts |-> objs[a].task]
  /\ listeners' = [a \in Insts |-> objs[a].listeners]

\* What the code that a call runs beside the statements modelled here does
\* (BaseAgent.initialize and the shutdown code of BaseAgent.stop are left to
\* the subclasses): it completes, or it throws an Error.
Outcomes == {"completes", "throws"}

\* A descriptor as the agent classes write them
Descriptor(name) == [name |-> name, description |-> "text", handler |-> "returns"]

\* BaseAgent.initialize()
BaseAgent_initialize(this, id, outcome) ==
  IF outcome = "throws"
    THEN [this |-> this, emitted |-> <<>>, completion |-> Throw(Error("initialize"))]
    ELSE [this |-> this, emitted |-> <<>>, completion |-> Return(undefined)]

\* ContentAnalysisAgent.initialize(): three tools and one resource are
\* registered in the agent's lists, on every call
ContentAnalysisAgent_initialize(this, id, outcome) ==
  LET s  == BaseAgent_initialize(this, id, outcome)
      t1 == BaseAgent_registerTool(this.tools, id, Descriptor(analyze_text))
      t2 == BaseAgent_registerTool(t1.list, id, Descriptor(analyze_image))
      t3 == BaseAgent_registerTool(t2.list, id, Descriptor(analyze_post))
      r1 == BaseAgent_registerResource(this.resources, id,
                                       Descriptor(content_analysis_results))
  IN IF s.completion.type = "throw" THEN s
     ELSE [this |-> [this EXCEPT !.tools = t3.list, !.resources = r1.list],
           emitted |-> <<"tool-registered", "tool-registered", "tool-registered",
                         "resource-registered">>,
           completion |-> Return(undefined)]

\* TwitterAgent.initialize()
TwitterAgent_initialize(this, id, outcome) ==
  LET s  == BaseAgent_initialize(this, id, outcome)
      t1 == BaseAgent_registerTool(this.tools, id, Descriptor(search_tweets))
  IN IF s.completion.type = "throw" THEN s
     ELSE [this |-> [this EXCEPT !.tools = t1.list],
           emitted |-> <<"tool-registered">>,
           completion |-> Return(undefined)]

\* agent.initialize(), by the class of the agent
initialize(this, id, outcome) ==
  IF id = "content-analysis"
    THEN ContentAnalysisAgent_initialize(this, id, outcome)
    ELSE TwitterAgent_initialize(this, id, outcome)

BaseAgent_start_runningOnFailure(this, id, outcome) ==
  IF this.running
    THEN [this |-> this, emitted |-> <<>>, completion |-> Return(undefined)]
    ELSE LET i == initialize(this, id, outcome)
         IN [this |-> [i.this EXCEPT !.running = TRUE],
             emitted |-> i.emitted \o <<"started">>,
             completion |-> i.completion]

\* BaseAgent.start()
BaseAgent_start(this, id, outcome) ==
  IF this.running
    THEN [this |-> this, emitted |-> <<>>, completion |-> Return(undefined)]
    ELSE LET i == initialize(this, id, outcome)
         IN IF i.completion.type = "throw"
              THEN i
              ELSE [this |-> [i.this EXCEPT !.running = TRUE],
                    emitted |-> i.emitted \o <<"started">>,
                    completion |-> Return(undefined)]

BaseAgent_stop_always(this, outcome) ==
  [this |-> [this EXCEPT !.running = FALSE], emitted |-> <<"stopped">>,
   completion |-> Return(undefined)]

\* BaseAgent.stop(): the first statement of its try block sets running to
\* false, so that a throw of the statements after it leaves the agent not
\* running
BaseAgent_stop(this, outcome) ==
  IF ~this.running
    THEN [this |-> this, emitted |-> <<>>, completion |-> Return(undefined)]
    ELSE IF outcome = "throws"
      THEN [this |-> [this EXCEPT !.running = FALSE], emitted |-> <<>>,
            completion |-> Throw(Error("stop"))]
      ELSE [this |-> [this EXCEPT !.running = FALSE], emitted |-> <<"stopped">>,
            completion |-> Return(undefined)]

\* startQueueProcessor(): setInterval schedules one more interval, and
\* queueInterval holds the new one
startQueueProcessor(this) ==
  [this EXCEPT !.timers = @ + 1, !.queueInterval = "interval"]

\* stopQueueProcessor(): the interval that queueInterval holds is cleared
stopQueueProcessor(this) ==
  IF this.queueInterval \in {"undefined", "null"} THEN this
  ELSE [this EXCEPT !.timers = @ - 1, !.queueInterval = "null"]

\* ContentAnalysisAgent.start()
ContentAnalysisAgent_start(this, id, outcome) ==
  LET s == BaseAgent_start(this, id, outcome)
  IN IF s.completion.type = "throw" THEN s
     ELSE [s EXCEPT !.this = startQueueProcessor(s.this)]

\* ContentAnalysisAgent.stop()
ContentAnalysisAgent_stop(this, outcome) ==
  BaseAgent_stop(stopQueueProcessor(this), outcome)

\* agent.start() and agent.stop(), by the class of the agent
start(this, id, outcome) ==
  IF id = "content-analysis"
    THEN ContentAnalysisAgent_start(this, id, outcome)
    ELSE BaseAgent_start(this, id, outcome)

stop(this, id, outcome) ==
  IF id = "content-analysis"
    THEN ContentAnalysisAgent_stop(this, outcome)
    ELSE BaseAgent_stop(this, outcome)

\* The number of initialize() calls that the lists of an agent show
ToolsPerInitialize(id) == IF id = "content-analysis" THEN 3 ELSE 1
MayInitialize(agent) ==
  Len(agentTools[agent]) < MaxInitializes * ToolsPerInitialize(AgentIdOf(agent))

\* A call of a method of an agent, as recorded in last: before is the agent
\* object when the method was called, outcome the outcome drawn for the call
AgentCall(op, agent, outcome, r) ==
  [op |-> op, arg |-> agent, invoked |-> <<>>, emitted |-> r.emitted,
   before |-> This(agent), outcome |-> outcome, completion |-> r.completion]

Initialize(agent, outcome) ==
  LET r == initialize(This(agent), AgentIdOf(agent), outcome)
  IN /\ exited = "no"
     /\ MayInitialize(agent)
     /\ Store([Objects EXCEPT ![agent] = r.this])
     /\ last' = AgentCall("initialize", agent, outcome, r)
     /\ UNCHANGED <<routes, tools, resources, agents, appVars>>

Start(agent, outcome) ==
  LET r == start(This(agent), AgentIdOf(agent), outcome)
  IN /\ exited = "no"
     /\ running[agent] \/ MayInitialize(agent)
     /\ timers[agent] < MaxTimers
     /\ Store([Objects EXCEPT ![agent] = r.this])
     /\ last' = AgentCall("start", agent, outcome, r)
     /\ UNCHANGED <<routes, tools, resources, agents, appVars>>

Stop(agent, outcome) ==
  LET r == stop(This(agent), AgentIdOf(agent), outcome)
  IN /\ exited = "no"
     /\ Store([Objects EXCEPT ![agent] = r.this])
     /\ last' = AgentCall("stop", agent, outcome, r)
     /\ UNCHANGED <<routes, tools, resources, agents, appVars>>

notifyAgents_ignoresRunning(agentsMap, objs, eventType, excludeAgentIds) ==
  LET notified == SelectSeq(agentsMap, LAMBDA e : e.key \notin excludeAgentIds)
  IN [i \in 1..Len(notified) |-> [agent |-> notified[i].value, event |-> eventType]]

\* SocialMcpAgentApp.notifyAgents(eventType, data, excludeAgentIds) for the
\* application's map agentsMap: the events it emits, in order
notifyAgents(agentsMap, objs, eventType, excludeAgentIds) ==
  LET notified == SelectSeq(agentsMap,
                    LAMBDA e : e.key \notin excludeAgentIds /\ objs[e.value].running)
  IN [i \in 1..Len(notified) |-> [agent |-> notified[i].value, event |-> eventType]]

\* n times the sequence seq
RECURSIVE Repeat(_, _)
Repeat(seq, n) == IF n = 0 THEN <<>> ELSE seq \o Repeat(seq, n - 1)

\* A task is pushed on the queue of a content-analysis agent
Enqueue(agent, t) ==
  /\ exited = "no"
  /\ AgentIdOf(agent) = "content-analysis"
  /\ \A a \in Insts : t \notin Range(analyzeQueue[a]) /\ task[a] # t
  /\ analyzeQueue' = [analyzeQueue EXCEPT ![agent] = Append(@, t)]
  /\ last' = NoCall
  /\ UNCHANGED <<routes, tools, resources, agents, agentTools, agentResources,
                 running, queueInterval, timers, processingAnalysis, task,
                 listeners, appVars>>

TickBegin_noFlag(agent) ==
  /\ exited = "no"
  /\ timers[agent] > 0
  /\ Len(analyzeQueue[agent]) > 0
  /\ processingAnalysis' = [processingAnalysis EXCEPT ![agent] = TRUE]
  /\ task' = [task EXCEPT ![agent] = Head(analyzeQueue[agent])]
  /\ analyzeQueue' = [analyzeQueue EXCEPT ![agent] = Tail(@)]
  /\ last' = [op |-> "tickBegin", arg |-> agent, invoked |-> <<>>, emitted |-> <<>>,
              before |-> This(agent), completion |-> Return(undefined)]
  /\ UNCHANGED <<routes, tools, resources, agents, agentTools, agentResources,
                 running, queueInterval, timers, listeners, appVars>>

\* The callback of an interval of the agent, up to await task.execute(): it
\* takes a task when the queue holds one and no task is being processed.
\* The callbacks that find no task, or a task being processed, do nothing.
TickBegin(agent) ==
  /\ exited = "no"
  /\ timers[agent] > 0
  /\ Len(analyzeQueue[agent]) > 0 /\ ~processingAnalysis[agent]
  /\ processingAnalysis' = [processingAnalysis EXCEPT ![agent] = TRUE]
  /\ task' = [task EXCEPT ![agent] = Head(analyzeQueue[agent])]
  /\ analyzeQueue' = [analyzeQueue EXCEPT ![agent] = Tail(@)]
  /\ last' = [op |-> "tickBegin", arg |-> agent, invoked |-> <<>>, emitted |-> <<>>,
              before |-> This(agent), completion |-> Return(undefined)]
  /\ UNCHANGED <<routes, tools, resources, agents, agentTools, agentResources,
                 running, queueInterval, timers, listeners, appVars>>

TickEnd_noFinally(agent, outcome) ==
  /\ exited = "no"
  /\ task[agent] # 0
  /\ processingAnalysis' = [processingAnalysis EXCEPT ![agent] = (outcome = "throws")]
  /\ task' = [task EXCEPT ![agent] = 0]
  /\ last' = [op |-> "tick", arg |-> agent, invoked |-> <<>>, outcome |-> outcome,
              emitted |->
                IF outcome = "throws" THEN <<>>
                ELSE <<[agent |-> agent, event |-> "analysis-completed"]>> \o
                     Repeat(notifyAgents(app_agents, Objects, "analysis-event",
                                         {AgentIdOf(agent)}),
                            listeners[agent]),
              completion |-> Return(undefined)]
  /\ UNCHANGED <<routes, tools, resources, agents, agentTools, agentResources,
                 running, queueInterval, timers, analyzeQueue, listeners, appVars>>

\* The rest of the callback: task.execute() has completed or thrown, the
\* event 'analysis-completed' is emitted in the first case, every listener the
\* application has added for it calls notifyAgents, and the finally block
\* resets processingAnalysis
TickEnd(agent, outcome) ==
  /\ exited = "no"
  /\ task[agent] # 0
  /\ processingAnalysis' = [processingAnalysis EXCEPT ![agent] = FALSE]
  /\ task' = [task EXCEPT ![agent] = 0]
  /\ last' = [op |-> "tick", arg |-> agent, invoked |-> <<>>, outcome |-> outcome,
              emitted |->
                IF outcome = "throws" THEN <<>>
                ELSE <<[agent |-> agent, event |-> "analysis-completed"]>> \o
                     Repeat(notifyAgents(app_agents, Objects, "analysis-event",
                                         {AgentIdOf(agent)}),
                            listeners[agent]),
              completion |-> Return(undefined)]
  /\ UNCHANGED <<routes, tools, resources, agents, agentTools, agentResources,
                 running, queueInterval, timers, analyzeQueue, listeners, appVars>>

---------------------------------------------------------------------------
(* SocialMcpAgentApp (src/src/index.js), McpMiddleware.initialize and       *)
(* shutdown, and the handlers of the process                                *)

MaxListeners == 2      \* 'analysis-completed' listeners of one agent instance

\* The agent classes initializeAgents instantiates, in its order: index.js
\* instantiates ContentAnalysisAgent and leaves the place of the further
\* agents, with the same three statements, as a comment; the model runs the
\* three statements for the two agent classes of the repository.
AppAgentClasses == <<"content-analysis", "twitter">>

EventTypes == {"analysis-event"}

\* The objects an application call works on
World ==
  [objs |-> Objects, agents |-> agents, tools |-> tools, resources |-> resources,
   app_agents |-> app_agents, app_initialized |-> app_initialized,
   app_started |-> app_started, initialized |-> initialized]

StoreWorld(w) ==
  /\ Store(w.objs)
  /\ agents' = w.agents
  /\ tools' = w.tools
  /\ resources' = w.resources
  /\ app_agents' = w.app_agents
  /\ app_initialized' = w.app_initialized
  /\ app_started' = w.app_started
  /\ initialized' = w.initialized

\* The agent objects stay within the bounds of the model
WithinBounds(objs) ==
  \A a \in Insts :
    /\ Len(objs[a].tools) <= MaxInitializes * ToolsPerInitialize(AgentIdOf(a))
    /\ objs[a].timers <= MaxTimers
    /\ objs[a].listeners <= MaxListeners

\* new ContentAnalysisAgent(), new TwitterAgent(): an object as the
\* constructors leave it, that nothing refers to
NewObject ==
  [tools |-> <<>>, resources |-> <<>>, running |-> FALSE,
   queueInterval |-> "undefined", timers |-> 0, analyzeQueue |-> <<>>,
   processingAnalysis |-> FALSE, task |-> 0, listeners |-> 0]
IsNew(w, a) ==
  /\ w.objs[a] = NewObject
  /\ a \notin Range(MapValues(w.app_agents))
  /\ a \notin Range(MapValues(w.agents))
HasNew(w, id) == \E a \in Insts : AgentIdOf(a) = id /\ IsNew(w, a)
New(w, id) ==
  CHOOSE a \in Insts :
    /\ AgentIdOf(a) = id /\ IsNew(w, a)
    /\ \A b \in Insts : (AgentIdOf(b) = id /\ IsNew(w, b)) => a <= b

\* McpMiddleware.initialize(): outcome is what the connection of the server
\* to its transport does
McpMiddleware_initialize(w, outcome) ==
  IF w.initialized THEN [w |-> w, completion |-> Return(undefined)]
  ELSE IF outcome = "throws"
    THEN [w |-> w, completion |-> Throw(Error("connect"))]
    ELSE [w |-> [w EXCEPT !.initialized = TRUE], completion |-> Return(undefined)]

\* McpMiddleware.shutdown(): outcome is what server.shutdown() and
\* transport.close() do
McpMiddleware_shutdown(w, outcome) ==
  IF outcome = "throws"
    THEN [w |-> w, completion |-> Throw(Error("shutdown"))]
    ELSE [w |-> [w EXCEPT !.initialized = FALSE], completion |-> Return(undefined)]

\* Body(v), with v evaluated once
With(v, Body(_)) == CHOOSE y \in {Body(x) : x \in {v}} : TRUE

\* The three statements of initializeAgents() for one agent class: the agent
\* is constructed and initialized, stored in the application's map and
\* registered in the middleware
initializeAgent(w, id, outcome) ==
  LET a == New(w, id)
  IN With(initialize(w.objs[a], id, outcome), LAMBDA i :
       IF i.completion.type = "throw"
         THEN [w |-> [w EXCEPT !.objs[a] = i.this], completion |-> i.completion]
         ELSE With(registerAgentWith(w.agents, w.tools, w.resources,
                                     i.this.tools, i.this.resources, id, a),
                   LAMBDA reg :
                     [w |-> [w EXCEPT !.objs[a] = i.this,
                                      !.app_agents = MapSet(@, id, a),
                                      !.agents = reg.agents,
                                      !.tools = reg.tools,
                                      !.resources = reg.resources],
                      completion |-> reg.completion]))

\* initializeAgents() for the given agent classes; o gives the outcome of the
\* initialize() of each class
RECURSIVE initializeAgentsOf(_, _, _)
initializeAgentsOf(w, classes, o) ==
  IF classes = <<>> THEN [w |-> w, completion |-> Return(undefined)]
  ELSE With(initializeAgent(w, Head(classes), o[Head(classes)]), LAMBDA r :
         IF r.completion.type = "throw" THEN r
         ELSE initializeAgentsOf(r.w, Tail(classes), o))

initializeAgents(w, o) == initializeAgentsOf(w, AppAgentClasses, o)

\* SocialMcpAgentApp.initialize()
SocialMcpAgentApp_initialize(w, mw, o) ==
  IF w.app_initialized THEN [w |-> w, completion |-> Return(undefined)]
  ELSE With(McpMiddleware_initialize(w, mw), LAMBDA m :
         IF m.completion.type = "throw" THEN m
         ELSE With(initializeAgents(m.w, o), LAMBDA i :
                IF i.completion.type = "throw" THEN i
                ELSE [w |-> [i.w EXCEPT !.app_initialized = TRUE],
                      completion |-> Return(undefined)]))

\* setupEventHandlers(): one more 'analysis-completed' listener on the agent
\* stored under 'content-analysis'
setupEventHandlers(w) ==
  IF MapHas(w.app_agents, "content-analysis")
    THEN [w EXCEPT !.objs[MapGet(w.app_agents, "content-analysis")].listeners = @ + 1]
    ELSE w

\* for (const [id, agent] of this.agents.entries()) await agent.start()
RECURSIVE startAgents(_, _, _)
startAgents(w, entries, o) ==
  IF entries = <<>> THEN [w |-> w, calls |-> <<>>, completion |-> Return(undefined)]
  ELSE LET a == Head(entries).value
           call == <<[op |-> "start", agent |-> a]>>
       IN With(start(w.objs[a], Head(entries).key, o[Head(entries).key]), LAMBDA s :
            IF s.completion.type = "throw"
              THEN [w |-> [w EXCEPT !.objs[a] = s.this], calls |-> call,
                    completion |-> s.completion]
              ELSE With(startAgents([w EXCEPT !.objs[a] = s.this], Tail(entries), o),
                        LAMBDA rest : [rest EXCEPT !.calls = call \o @]))

\* SocialMcpAgentApp.start(): mw and io are the outcomes of the middleware's
\* and the agents' initialization, so of the agents' start
SocialMcpAgentApp_start(w, mw, io, so) ==
  With(SocialMcpAgentApp_initialize(w, mw, io), LAMBDA i :
    IF i.completion.type = "throw"
      THEN [w |-> i.w, calls |-> <<>>, completion |-> i.completion]
    ELSE IF i.w.app_started
      THEN [w |-> i.w, calls |-> <<>>, completion |-> Return(undefined)]
    ELSE With(startAgents(i.w, i.w.app_agents, so), LAMBDA s :
           IF s.completion.type = "throw" THEN s
           ELSE [w |-> [setupEventHandlers(s.w) EXCEPT !.app_started = TRUE],
                 calls |-> s.calls, completion |-> Return(undefined)]))

Reverse(seq) == [i \in 1..Len(seq) |-> seq[Len(seq) + 1 - i]]

\* The loop of stop() over the given ids: await agent.stop() for each
RECURSIVE stopAgents(_, _, _)
stopAgents(w, ids, o) ==
  IF ids = <<>> THEN [w |-> w, calls |-> <<>>, completion |-> Return(undefined)]
  ELSE LET a == MapGet(w.app_agents, Head(ids))
           call == <<[op |-> "stop", agent |-> a]>>
       IN With(stop(w.objs[a], Head(ids), o[Head(ids)]), LAMBDA s :
            IF s.completion.type = "throw"
              THEN [w |-> [w EXCEPT !.objs[a] = s.this], calls |-> call,
                    completion |-> s.completion]
              ELSE With(stopAgents([w EXCEPT !.objs[a] = s.this], Tail(ids), o),
                        LAMBDA rest : [rest EXCEPT !.calls = call \o @]))

\* The stop() of the application with the loop over the given ids
stopOver(w, ids, o, sh) ==
  IF ~w.app_started
    THEN [w |-> w, calls |-> <<>>, completion |-> Return(undefined)]
  ELSE With(stopAgents(w, ids, o), LAMBDA s :
         IF s.completion.type = "throw" THEN s
         ELSE With(McpMiddleware_shutdown(s.w, sh), LAMBDA m :
                [w |-> IF m.completion.type = "throw" THEN m.w
                       ELSE [m.w EXCEPT !.app_started = FALSE],
                 calls |-> Append(s.calls, [op |-> "shutdown", agent |-> 0]),
                 completion |-> m.completion]))

SocialMcpAgentApp_stop_forward(w, o, sh) == stopOver(w, MapKeys(w.app_agents), o, sh)

\* SocialMcpAgentApp.stop(): o gives the outcome of the stop of each agent,
\* sh the outcome of the middleware's shutdown
SocialMcpAgentApp_stop(w, o, sh) ==
  stopOver(w, Reverse(MapKeys(w.app_agents)), o, sh)

OutcomesOf == [AgentIds -> Outcomes]

\* The outcomes of calls that are not made are not drawn: when the flag is
\* false the calls are not made, and the outcomes are the first ones
IrrelevantAreFirst(flag, o, outcome) ==
  flag \/ (outcome = "completes" /\ \A id \in AgentIds : o[id] = "completes")

\* A call of a method of the application, as recorded in last: calls are the
\* calls it made of the agents' start() and stop() and of the middleware's
\* shutdown(), before the flags of the application when it was called
AppCall(op, arg, r) ==
  [op |-> op, arg |-> arg, invoked |-> <<>>, emitted |-> <<>>, calls |-> r.calls,
   before |-> [app_initialized |-> app_initialized, app_started |-> app_started],
   completion |-> r.completion]

\* app.initialize()
AppInitialize(mw, o) ==
  /\ exited = "no"
  /\ IrrelevantAreFirst(~app_initialized, o, mw)
  /\ app_initialized \/ \A id \in AgentIds : HasNew(World, id)
  /\ \E r \in {SocialMcpAgentApp_initialize(World, mw, o)} :
       /\ StoreWorld(r.w)
       /\ last' = AppCall("app.initialize", undefined,
                           [calls |-> <<>>, completion |-> r.completion])
       /\ UNCHANGED <<routes, exited, signalVars, analysisVars>>

\* app.start(), called by a module that imports the application
AppStart(mw, io, so) ==
  /\ exited = "no"
  /\ IrrelevantAreFirst(~app_initialized, io, mw)
  /\ IrrelevantAreFirst(~app_started, so, "completes")
  /\ app_initialized \/ \A id \in AgentIds : HasNew(World, id)
  /\ \E r \in {SocialMcpAgentApp_start(World, mw, io, so)} :
       /\ WithinBounds(r.w.objs)
       /\ StoreWorld(r.w)
       /\ last' = AppCall("app.start", undefined, r)
       /\ UNCHANGED <<routes, exited, signalVars, analysisVars>>

\* app.start().catch(error => process.exit(1)), the last statement of index.js
Main(mw, io, so) ==
  /\ exited = "no"
  /\ ~app_initialized /\ ~initialized /\ app_agents = <<>>
  /\ \A id \in AgentIds : HasNew(World, id)
  /\ \E r \in {SocialMcpAgentApp_start(World, mw, io, so)} :
       /\ WithinBounds(r.w.objs)
       /\ StoreWorld(r.w)
       /\ exited' = IF r.completion.type = "throw" THEN "1" ELSE "no"
       /\ last' = AppCall("main", undefined, r)
       /\ UNCHANGED <<routes, signalVars, analysisVars>>

\* app.stop()
AppStop(o, sh) ==
  /\ exited = "no"
  /\ IrrelevantAreFirst(app_started, o, sh)
  /\ \E r \in {SocialMcpAgentApp_stop(World, o, sh)} :
       /\ StoreWorld(r.w)
       /\ last' = AppCall("app.stop", undefined, r)
       /\ UNCHANGED <<routes, exited, signalVars, analysisVars>>

\* app.notifyAgents(eventType, data, excludeAgentIds)
NotifyAgents(eventType, excludeAgentIds) ==
  /\ exited = "no"
  /\ last' = [op |-> "notifyAgents",
              arg |-> [eventType |-> eventType, excludeAgentIds |-> excludeAgentIds],
              invoked |-> <<>>,
              emitted |-> notifyAgents(app_agents, Objects, eventType, excludeAgentIds),
              completion |-> Return(undefined)]
  /\ UNCHANGED <<routes, tools, resources, agents, agentTools, agentResources,
                 agentVars, appVars>>

\* The handlers of uncaughtException and unhandledRejection:
\* app.stop().finally(() => process.exit(1))
ProcessError(o, sh) ==
  /\ exited = "no"
  /\ IrrelevantAreFirst(app_started, o, sh)
  /\ \E r \in {SocialMcpAgentApp_stop(World, o, sh)} :
       /\ StoreWorld(r.w)
       /\ exited' = "1"
       /\ last' = AppCall("uncaughtException", undefined, r)
       /\ UNCHANGED <<routes, signalVars, analysisVars>>

\* The handlers of SIGINT and SIGTERM: await app.stop(); process.exit(0).
\* When app.stop() rejects, process.exit(0) is not reached: the promise of the
\* handler rejects, which the handler of unhandledRejection takes up
\* (ProcessError).
ProcessSignal(o, sh) ==
  /\ exited = "no"
  /\ IrrelevantAreFirst(app_started, o, sh)
  /\ \E r \in {SocialMcpAgentApp_stop(World, o, sh)} :
       /\ StoreWorld(r.w)
       /\ exited' = IF r.completion.type = "return" THEN "0" ELSE "no"
       /\ last' = AppCall("SIGINT", undefined, r)
       /\ UNCHANGED <<routes, signalVars, analysisVars>>

---------------------------------------------------------------------------
(* ContentAnalysisAgent: analyzeText, analyzeImage, analyzePost and         *)
(* getAnalysisResults                                                       *)

MaxWords == 3      \* words of a text
NumRands == 2      \* values of the random part of an analysis id
MaxNow == 1        \* the clock runs from 0 to MaxNow
MaxAnalyses == 2   \* analysis operations called on the agent
MaxMedia == 1      \* media urls of a post
MaxLimit == 2      \* limit and offset of a request run from 0 to MaxLimit

\* A word of text.toLowerCase().split(/\s+/), by what the two tests of the
\* forEach find: whether it includes a word of positiveWords, and whether it
\* includes a word of negativeWords. A text is the sequence of its words; split
\* gives one word at least.
Words == [positive : BOOLEAN, negative : BOOLEAN]
TextsOf(n) == UNION {[1..k -> Words] : k \in 1..n}
Texts == TextsOf(MaxWords)
Rands == 1..NumRands
AnalysisTypes == {"text", "image", "post"}

\* words.forEach(word => { if (...) positiveScore++; if (...) negativeScore++ })
RECURSIVE forEachWord(_, _)
forEachWord(words, scores) ==
  IF words = <<>> THEN scores
  ELSE forEachWord(Tail(words),
         [positiveScore |-> scores.positiveScore + (IF Head(words).positive THEN 1 ELSE 0),
          negativeScore |-> scores.negativeScore + (IF Head(words).negative THEN 1 ELSE 0)])

\* The quotient of two small integers, kept as the fraction num/den: the
\* double that the division gives is greater than the double 0.2 exactly
\* when the fraction is greater than 1/5 (1/5 itself divides to the double
\* that the literal 0.2 denotes), and likewise for -0.2.
GreaterThanFifth(score) == 5 * score.num > score.den
LessThanMinusFifth(score) == 5 * score.num < - score.den

sentimentOf_positiveAboveZero(text) ==
  LET scores == forEachWord(text, [positiveScore |-> 0, negativeScore |-> 0])
      score == IF scores.positiveScore + scores.negativeScore > 0
                 THEN [num |-> scores.positiveScore - scores.negativeScore,
                       den |-> scores.positiveScore + scores.negativeScore]
                 ELSE [num |-> 0, den |-> 1]
  IN [score |-> score,
      label |-> IF score.num > 0 THEN "positive"
                ELSE IF LessThanMinusFifth(score) THEN "negative" ELSE "neutral"]

\* The sentiment analyzeText computes when opts.extractSentiment is set
sentimentOf(text) ==
  LET scores == forEachWord(text, [positiveScore |-> 0, negativeScore |-> 0])
      score == IF scores.positiveScore + scores.negativeScore > 0
                 THEN [num |-> scores.positiveScore - scores.negativeScore,
                       den |-> scores.positiveScore + scores.negativeScore]
                 ELSE [num |-> 0, den |-> 1]
  IN [score |-> score,
      label |-> IF GreaterThanFifth(score) THEN "positive"
                ELSE IF LessThanMinusFifth(score) THEN "negative" ELSE "neutral"]

\* `${type}_${Date.now()}_${Math.random().toString(36).substring(2, 9)}`
AnalysisId(type, time, rand) == [type |-> type, time |-> time, rand |-> rand]

\* this.analysisResults.set(analysisId, {type, ..., timestamp: new Date()}):
\* performed, which the code does not store, numbers the set calls in their
\* order
storeResult(results, performed, analysisId, time) ==
  MapSet(results, analysisId,
         [type |-> analysisId.type, timestamp |-> time, performed |-> performed + 1])

\* analyzeText(params): the results after the call, the number of set calls
\* made, and the value returned; extractSentiment is the option after the
\* defaults
analyzeText(results, performed, time, rand, text, extractSentiment) ==
  LET analysisId == AnalysisId("text", time, rand)
      sentiment == IF extractSentiment THEN sentimentOf(text) ELSE [label |-> "null"]
  IN [results |-> storeResult(results, performed, analysisId, time),
      performed |-> performed + 1,
      completion |-> Return([content |-> [analysisId |-> analysisId,
                                           sentiment |-> sentiment]])]

\* analyzeImage(params)
analyzeImage(results, performed, time, rand) ==
  LET analysisId == AnalysisId("image", time, rand)
  IN [results |-> storeResult(results, performed, analysisId, time),
      performed |-> performed + 1,
      completion |-> Return([content |-> [analysisId |-> analysisId]])]

\* for (const imageUrl of mediaUrls) await this.analyzeImage(...): rands gives
\* the random part of the id of each image analysis
RECURSIVE forEachMedia(_, _, _, _)
forEachMedia(results, performed, time, rands) ==
  IF rands = <<>> THEN [results |-> results, performed |-> performed]
  ELSE With(analyzeImage(results, performed, time, Head(rands)), LAMBDA i :
         forEachMedia(i.results, i.performed, time, Tail(rands)))

\* analyzePost(params): the text is analysed by analyzeText and every media
\* url by analyzeImage, each of which stores its result, before the result of
\* the post is stored, elapsed milliseconds after the call
analyzePost(results, performed, time, rand, text, textRand, mediaRands, elapsed) ==
  LET analysisId == AnalysisId("post", time, rand)
  IN With(analyzeText(results, performed, time, textRand, text, TRUE), LAMBDA t :
       With(forEachMedia(t.results, t.performed, time, mediaRands), LAMBDA m :
         [results |-> storeResult(m.results, m.performed, analysisId, time + elapsed),
          performed |-> m.performed + 1,
          completion |-> Return([content |-> [analysisId |-> analysisId,
                                               textAnalysis |-> t.completion.value.content]])]))

\* The stable sort of results.sort((a, b) => b.timestamp - a.timestamp): an
\* element goes behind the elements before it that are not older
sortInsert(sorted, x) ==
  LET k == Cardinality({i \in 1..Len(sorted) : sorted[i].timestamp >= x.timestamp})
  IN SubSeq(sorted, 1, k) \o <<x>> \o SubSeq(sorted, k + 1, Len(sorted))

RECURSIVE sortByTimestamp(_)
sortByTimestamp(seq) ==
  IF seq = <<>> THEN <<>>
  ELSE sortInsert(sortByTimestamp(SubSeq(seq, 1, Len(seq) - 1)), seq[Len(seq)])

Min(a, b) == IF a < b THEN a ELSE b
Max(a, b) == IF a > b THEN a ELSE b

\* results.slice(begin, end) for 0 <= begin <= end
slice(seq, begin, end) == SubSeq(seq, begin + 1, Min(end, Len(seq)))

\* A parameter of a request, or its default when the request leaves it out
Param(params, name, default) ==
  IF name \in DOMAIN params THEN params[name] ELSE default

\* getAnalysisResults(params): type "" is a type left out, which the test
\* if (type) takes as any other falsy type
getAnalysisResults(results, params) ==
  LET type == params.type
      limit == Param(params, "limit", 10)
      offset == Param(params, "offset", 0)
      all == [i \in 1..Len(results) |->
                [id |-> results[i].key, type |-> results[i].value.type,
                 timestamp |-> results[i].value.timestamp,
                 performed |-> results[i].value.performed]]
      filtered == IF type # "" THEN SelectSeq(all, LAMBDA e : e.type = type) ELSE all
      sorted == sortByTimestamp(filtered)
  IN Return([content |-> [total |-> Len(sorted), offset |-> offset, limit |-> limit,
                          results |-> slice(sorted, offset, offset + limit)]])

\* The number of set calls made so far
Performed ==
  IF analysisResults = <<>> THEN 0
  ELSE CHOOSE n \in {analysisResults[i].value.performed : i \in 1..Len(analysisResults)} :
         \A i \in 1..Len(analysisResults) : analysisResults[i].value.performed <= n

\* EmptyParams @@ [limit |-> 1] is the request {limit: 1}
EmptyParams == [name \in {} |-> 0]
Requests ==
  {[type |-> type] @@ l @@ o :
     type \in AnalysisTypes \cup {""},
     l \in {EmptyParams} \cup {[limit |-> n] : n \in 0..MaxLimit},
     o \in {EmptyParams} \cup {[offset |-> n] : n \in 0..MaxLimit}}

AnalyzeText(text, extractSentiment, rand) ==
  /\ analyses < MaxAnalyses
  /\ \E r \in {analyzeText(analysisResults, Performed, now, rand, text, extractSentiment)} :
       /\ analysisResults' = r.results
       /\ last' = [op |-> "analyzeText",
                   arg |-> [text |-> text, extractSentiment |-> extractSentiment],
                   invoked |-> <<>>, completion |-> r.completion]
  /\ analyses' = analyses + 1
  /\ UNCHANGED <<routes, tools, resources, agents, agentTools, agentResources, agentVars,
                 app_agents, app_initialized, app_started, initialized, exited,
                 signalVars, now>>

AnalyzeImage(rand) ==
  /\ analyses < MaxAnalyses
  /\ \E r \in {analyzeImage(analysisResults, Performed, now, rand)} :
       /\ analysisResults' = r.results
       /\ last' = [op |-> "analyzeImage", arg |-> undefined, invoked |-> <<>>,
                   completion |-> r.completion]
  /\ analyses' = analyses + 1
  /\ UNCHANGED <<routes, tools, resources, agents, agentTools, agentResources, agentVars,
                 app_agents, app_initialized, app_started, initialized, exited,
                 signalVars, now>>

AnalyzePost(text, rand, textRand, mediaRands, elapsed) ==
  /\ analyses < MaxAnalyses
  /\ now + elapsed <= MaxNow
  /\ \E r \in {analyzePost(analysisResults, Performed, now, rand, text, textRand,
                           mediaRands, elapsed)} :
       /\ analysisResults' = r.results
       /\ last' = [op |-> "analyzePost",
                   arg |-> [text |-> text, mediaUrls |-> Len(mediaRands)],
                   invoked |-> <<>>, completion |-> r.completion]
  /\ analyses' = analyses + 1
  /\ now' = now + elapsed
  /\ UNCHANGED <<routes, tools, resources, agents, agentTools, agentResources, agentVars,
                 app_agents, app_initialized, app_started, initialized, exited,
                 signalVars>>

\* A millisecond passes
Tock ==
  /\ now < MaxNow
  /\ now' = now + 1
  /\ last' = NoCall
  /\ UNCHANGED <<routes, tools, resources, agents, agentTools, agentResources, agentVars,
                 app_agents, app_initialized, app_started, initialized, exited,
                 signalVars, analysisResults, analyses>>

GetAnalysisResults(params) ==
  /\ last' = [op |-> "getAnalysisResults", arg |-> params, invoked |-> <<>>,
              completion |-> getAnalysisResults(analysisResults, params)]
  /\ UNCHANGED <<routes, tools, resources, agents, agentTools, agentResources, agentVars,
                 appVars>>

\* The signals index.js handles
Signals == {"SIGINT", "SIGTERM"}

\* The handler of a signal, up to the first await of its app.stop() that
\* waits for the server: stop() returns at once when the application is not
\* started, and process.exit(0) follows; else the agents are stopped, as in
\* stopAgents, and mcpMiddleware.shutdown() calls server.shutdown(). While the
\* handler waits, the handler of another signal may run. A stop() that
\* rejects leaves the handler without process.exit(0).
Signal(sig, o) ==
  /\ exited = "no"
  /\ signalHandler[sig] = "idle"
  /\ IrrelevantAreFirst(app_started, o, "completes")
  /\ \E r \in {IF app_started
                 THEN stopAgents(World, Reverse(MapKeys(app_agents)), o)
                 ELSE [w |-> World, calls |-> <<>>, completion |-> Return(undefined)]} :
       /\ StoreWorld(r.w)
       /\ signalHandler' = [signalHandler EXCEPT ![sig] =
                        IF ~app_started THEN "done"
                        ELSE IF r.completion.type = "throw" THEN "rejected"
                        ELSE "server.shutdown"]
       /\ exited' = IF app_started THEN "no" ELSE "0"
       /\ serverShutdowns' =
            IF app_started /\ r.completion.type = "return"
              THEN serverShutdowns + 1 ELSE serverShutdowns
       /\ last' = AppCall(sig, undefined, r)
       /\ UNCHANGED <<routes, transportCloses, analysisVars>>

\* await this.server.shutdown() settles in the handler of the signal, and
\* shutdown() goes on to transport.close()
ServerShutdownSettles(sig, outcome) ==
  /\ exited = "no"
  /\ signalHandler[sig] = "server.shutdown"
  /\ signalHandler' = [signalHandler EXCEPT ![sig] =
                   IF outcome = "throws" THEN "rejected" ELSE "transport.close"]
  /\ transportCloses' =
       IF outcome = "throws" THEN transportCloses ELSE transportCloses + 1
  /\ last' = NoCall
  /\ UNCHANGED <<routes, tools, resources, agents, agentTools, agentResources,
                 agentVars, app_agents, app_initialized, app_started, initialized,
                 exited, serverShutdowns, analysisVars>>

\* await this.transport.close() settles: shutdown() resets initialized,
\* stop() resets started, and the handler calls process.exit(0)
TransportCloseSettles(sig, outcome) ==
  /\ exited = "no"
  /\ signalHandler[sig] = "transport.close"
  /\ signalHandler' = [signalHandler EXCEPT ![sig] =
                   IF outcome = "throws" THEN "rejected" ELSE "done"]
  /\ initialized' = IF outcome = "throws" THEN initialized ELSE FALSE
  /\ app_started' = IF outcome = "throws" THEN app_started ELSE FALSE
  /\ exited' = IF outcome = "throws" THEN "no" ELSE "0"
  /\ last' = NoCall
  /\ UNCHANGED <<routes, tools, resources, agents, agentTools, agentResources,
                 agentVars, app_agents, app_initialized, serverShutdowns,
                 transportCloses, analysisVars>>

---------------------------------------------------------------------------

Init ==
  /\ routes = <<>>
  /\ tools = <<>>
  /\ resources = <<>>
  /\ agents = <<>>
  /\ agentTools = [i \in Insts |-> <<>>]
  /\ agentResources = [i \in Insts |-> <<>>]
  /\ running = [i \in Insts |-> FALSE]
  /\ queueInterval = [i \in Insts |-> "undefined"]
  /\ timers = [i \in Insts |-> 0]
  /\ analyzeQueue = [i \in Insts |-> <<>>]
  /\ processingAnalysis = [i \in Insts |-> FALSE]
  /\ task = [i \in Insts |-> 0]
  /\ listeners = [i \in Insts |-> 0]
  /\ app_agents = <<>>
  /\ app_initialized = FALSE
  /\ app_started = FALSE
  /\ initialized = FALSE
  /\ exited = "no"
  /\ signalHandler = [sig \in Signals |-> "idle"]
  /\ serverShutdowns = 0
  /\ transportCloses = 0
  /\ analysisResults = <<>>
  /\ now = 0
  /\ analyses = 0
  /\ last = NoCall

NextRouter ==
  \/ \E method \in Methods, handler \in RouteHandlers : RegisterRoute(method, handler)
  \/ \E message \in Messages : RouteMessage(message)

SpecRouter == Init /\ [][NextRouter]_vars

NextRegistry ==
  \/ \E tool \in ToolDescriptors : RegisterTool(tool)
  \/ \E name \in Names : UnregisterTool(name)
  \/ \E resource \in ResourceDescriptors : RegisterResource(resource)
  \/ \E name \in ResourceNames : UnregisterResource(name)
  \/ ToolsList
  \/ \E params \in ToolRequests : ToolsCall(params)
  \/ ResourcesList
  \/ \E params \in ResourceRequests : ResourcesGet(params)

SpecRegistry == Init /\ [][NextRegistry]_vars

NextMiddleware ==
  \/ \E agent \in Insts, tool \in AgentToolDescriptors : AgentRegisterTool(agent, tool)
  \/ \E agent \in Insts, resource \in AgentResourceDescriptors :
       AgentRegisterResource(agent, resource)
  \/ \E agent \in Insts : RegisterAgent(agent)
  \/ \E id \in AgentIds : UnregisterAgent(id)

SpecMiddleware == Init /\ [][NextMiddleware]_vars

\* The agent classes share no state: the methods of one instance of each
\* class are called, as test-agent.js and the server do
FirstInst(id) ==
  CHOOSE a \in Insts : AgentIdOf(a) = id /\ \A b \in Insts : AgentIdOf(b) = id => a <= b
Harness == {FirstInst(id) : id \in AgentIds}

NextAgent ==
  \/ \E agent \in Harness, outcome \in Outcomes : Initialize(agent, outcome)
  \/ \E agent \in Harness, outcome \in Outcomes : Start(agent, outcome)
  \/ \E agent \in Harness, outcome \in Outcomes : Stop(agent, outcome)
  \/ \E agent \in Harness, t \in Tasks : Enqueue(agent, t)
  \/ \E agent \in Harness : TickBegin(agent)
  \/ \E agent \in Harness, outcome \in Outcomes : TickEnd(agent, outcome)

SpecAgent == Init /\ [][NextAgent]_vars

\* The queue of one content-analysis agent that is started and stopped.
\* setInterval calls the callback of every scheduled interval again and
\* again, and a task.execute() that settles resumes the callback that awaits
\* it: both are weakly fair.
QueueAgent == FirstInst("content-analysis")

NextQueue ==
  \/ \E outcome \in Outcomes : Start(QueueAgent, outcome)
  \/ \E outcome \in Outcomes : Stop(QueueAgent, outcome)
  \/ \E t \in Tasks : Enqueue(QueueAgent, t)
  \/ TickBegin(QueueAgent)
  \/ \E outcome \in Outcomes : TickEnd(QueueAgent, outcome)

SpecQueue ==
  /\ Init
  /\ [][NextQueue]_vars
  /\ WF_vars(TickBegin(QueueAgent))
  /\ WF_vars(\E outcome \in Outcomes : TickEnd(QueueAgent, outcome))

NextApp ==
  \/ \E mw \in Outcomes, o \in OutcomesOf : AppInitialize(mw, o)
  \/ \E mw \in Outcomes, io \in OutcomesOf, so \in OutcomesOf : AppStart(mw, io, so)
  \/ \E mw \in Outcomes, io \in OutcomesOf, so \in OutcomesOf : Main(mw, io, so)
  \/ \E o \in OutcomesOf, sh \in Outcomes : AppStop(o, sh)
  \/ \E eventType \in EventTypes, excludeAgentIds \in SUBSET AgentIds :
       NotifyAgents(eventType, excludeAgentIds)
  \/ \E o \in OutcomesOf, sh \in Outcomes : ProcessError(o, sh)
  \/ \E o \in OutcomesOf, sh \in Outcomes : ProcessSignal(o, sh)
  \/ \E agent \in Range(MapValues(app_agents)), t \in Tasks : Enqueue(agent, t)
  \/ \E agent \in Insts : TickBegin(agent)
  \/ \E agent \in Insts, outcome \in Outcomes : TickEnd(agent, outcome)

SpecApp == Init /\ [][NextApp]_vars

\* The application that index.js starts, its queue, and the signals
NextSignals ==
  \/ \E mw \in Outcomes, io \in OutcomesOf, so \in OutcomesOf : Main(mw, io, so)
  \/ \E sig \in Signals, o \in OutcomesOf : Signal(sig, o)
  \/ \E sig \in Signals, outcome \in Outcomes : ServerShutdownSettles(sig, outcome)
  \/ \E sig \in Signals, outcome \in Outcomes : TransportCloseSettles(sig, outcome)
  \/ \E agent \in Range(MapValues(app_agents)), t \in Tasks : Enqueue(agent, t)
  \/ \E agent \in Insts : TickBegin(agent)
  \/ \E agent \in Insts, outcome \in Outcomes : TickEnd(agent, outcome)

SpecSignals == Init /\ [][NextSignals]_vars

\* The analysis methods of one content-analysis agent, called with texts of
\* one word, and the requests for its results
NextAnalysis ==
  \/ \E text \in TextsOf(1), extractSentiment \in BOOLEAN, rand \in Rands :
       AnalyzeText(text, extractSentiment, rand)
  \/ \E rand \in Rands : AnalyzeImage(rand)
  \/ \E text \in TextsOf(1), rand \in Rands, textRand \in Rands,
        mediaRands \in UNION {[1..k -> Rands] : k \in 0..MaxMedia}, elapsed \in 0..1 :
       AnalyzePost(text, rand, textRand, mediaRands, elapsed)
  \/ Tock
  \/ \E params \in Requests : GetAnalysisResults(params)

SpecAnalysis == Init /\ [][NextAnalysis]_vars

\* analyzeText called with every text; the id of the analysis, which plays
\* no part in the sentiment, has the same random part in every call
NextSentiment ==
  \E text \in Texts, extractSentiment \in BOOLEAN : AnalyzeText(text, extractSentiment, 1)

SpecSentiment == Init /\ [][NextSentiment]_vars

---------------------------------------------------------------------------
(* Properties of the MessageRouter (under SpecRouter) *)

IsErrorEnvelope(v, id, code) ==
  /\ DOMAIN v = {"jsonrpc", "id", "error"}
  /\ v.jsonrpc = "2.0"
  /\ v.id = id
  /\ v.error.code = code

C2_UnregisteredMethodNotFound ==
  [][(last'.op = "routeMessage" /\ ~MapHas(routes, last'.arg.method)) =>
       /\ last'.completion.type = "return"
       /\ IsErrorEnvelope(last'.completion.value, last'.arg.id, -32601)
       /\ last'.invoked = <<>>
       /\ routes' = routes]_vars

\* C2 witness: a request for an unregistered method while another method has
\* a route
C2_Witness ==
  /\ last.op = "routeMessage"
  /\ routes # <<>>
  /\ ~MapHas(routes, last.arg.method)
  /\ last.completion.value.id = last.arg.id

\* C3: when the handler of the request's method throws, routeMessage returns
\* the internal-error envelope (code -32000, which is not the method-not-found
\* code) with the exception's message and the request id; nothing is thrown to
\* the caller.
C3_HandlerThrowInternalError ==
  (/\ last.op = "routeMessage"
   /\ MapHas(routes, last.arg.method)
   /\ CallRouteHandler(MapGet(routes, last.arg.method), last.arg).type = "throw") =>
    /\ last.completion.type = "return"
    /\ IsErrorEnvelope(last.completion.value, last.arg.id, -32000)
    /\ InternalError # MethodNotFound
    /\ CallRouteHandler(MapGet(routes, last.arg.method), last.arg).value.message
         \in Range(last.completion.value.error.message)

\* C3 witness: a routed request whose handler threw
C3_Witness ==
  /\ last.op = "routeMessage"
  /\ last.invoked = <<"throws">>
  /\ last.completion.type = "return"

---------------------------------------------------------------------------
(* Properties of the CapabilityRegistry (under SpecRegistry) *)

IsToolErrorResult(v, message) ==
  /\ DOMAIN v = {"isError", "content"}
  /\ v.isError = TRUE
  /\ DOMAIN v.content = {"message"}
  /\ message \in Range(v.content.message)

\* C4: calling a tool that is in the registry never throws, whatever the
\* params: the call returns the handler's result or, when the handler throws,
\* the result {isError: true, content: {message}} with the error's message;
\* the registry is unchanged by the call.
C4_RegisteredToolCallNeverThrows ==
  [][(last'.op = "tools.call" /\ MapHas(tools, last'.arg.name)) =>
       LET c == CallHandler(MapGet(tools, last'.arg.name).handler, last'.arg.params)
       IN /\ last'.completion.type = "return"
          /\ IF c.type = "return"
               THEN last'.completion.value = c.value
               ELSE IsToolErrorResult(last'.completion.value, c.value.message)
          /\ tools' = tools
          /\ resources' = resources]_vars

\* C4 witness: a call of a registered tool whose handler threw
C4_Witness ==
  /\ last.op = "tools.call"
  /\ last.invoked # <<>>
  /\ last.invoked[1].handler = "throws"
  /\ last.completion.type = "return"
  /\ last.completion.value.isError = TRUE

NotFoundCall ==
  /\ last.op \in {"tools.call", "resources.get"}
  /\ last.invoked = <<>>

\* C5 (as stated): calling a tool or getting a resource whose name is not in
\* the registry returns a structured error envelope; nothing is thrown to the
\* caller.
C5_NotFoundReturnedNotThrown ==
  NotFoundCall =>
    /\ last.completion.type = "return"
    /\ \/ "error" \in DOMAIN last.completion.value
       \/ "isError" \in DOMAIN last.completion.value

\* C5 (amended): calling a tool or getting a resource whose name is not in the
\* registry fails with a not-found Error that the registry's call/get handler
\* throws to its caller (it is not returned as a structured result); no
\* handler is invoked and the registry is unchanged.
C5_NotFoundThrown ==
  [][(/\ last'.op \in {"tools.call", "resources.get"}
      /\ ~MapHas(IF last'.op = "tools.call" THEN tools ELSE resources, last'.arg.name)) =>
       /\ last'.completion.type = "throw"
       /\ last'.completion.value.name = "Error"
       /\ last'.completion.value.message[2] = last'.arg.name
       /\ last'.invoked = <<>>
       /\ tools' = tools
       /\ resources' = resources]_vars

\* C5 witness: a call of an unregistered tool name, thrown to the caller,
\* while another tool is registered
C5_Witness ==
  /\ last.op = "tools.call"
  /\ tools # <<>>
  /\ ~MapHas(tools, last.arg.name)
  /\ last.completion.type = "throw"

HandlerThrew ==
  /\ last.op \in {"tools.call", "resources.get"}
  /\ last.invoked # <<>>
  /\ CallHandler(last.invoked[1].handler, last.arg.params).type = "throw"

\* C6: a throwing handler of a registered resource makes the get operation
\* throw that same error to the caller, while a throwing handler of a
\* registered tool is turned into an error result that is returned.
C6_ResourceThrowsToolConverts ==
  HandlerThrew =>
    LET c == CallHandler(last.invoked[1].handler, last.arg.params)
    IN IF last.op = "resources.get"
         THEN last.completion = Throw(c.value)
         ELSE /\ last.completion.type = "return"
              /\ IsToolErrorResult(last.completion.value, c.value.message)

\* C6 witness: a get of a registered resource whose handler threw
C6_Witness ==
  /\ last.op = "resources.get"
  /\ last.invoked # <<>>
  /\ last.invoked[1].handler = "throws"
  /\ last.completion.type = "throw"

EntriesValid(m) ==
  \A i \in 1..Len(m) :
    /\ m[i].key # 0
    /\ m[i].value.name = m[i].key
    /\ m[i].value.handler # "undefined"

\* C7: every entry of the tool map and of the resource map has a non-empty
\* name, equal to its key, and a handler; registerTool and registerResource
\* with a descriptor that lacks the name or the handler throw a validation
\* error and leave both maps unchanged.
C7_EntriesHaveNameAndHandler ==
  [][/\ EntriesValid(tools')
     /\ EntriesValid(resources')
     /\ (/\ last'.op \in {"registerTool", "registerResource"}
         /\ (last'.arg.name = 0 \/ last'.arg.handler = "undefined")) =>
          /\ last'.completion.type = "throw"
          /\ last'.completion.value.name = "Error"
          /\ tools' = tools
          /\ resources' = resources]_vars

\* C7 witness: a registerTool with a named descriptor without handler was
\* refused while the registry holds entries
C7_Witness ==
  /\ last.op = "registerTool"
  /\ last.arg.name # 0
  /\ last.arg.handler = "undefined"
  /\ last.completion.type = "throw"
  /\ tools # <<>>
  /\ resources # <<>>

listTools(toolsMap) == toolsList(toolsMap).value.tools

NamesOnce(list) ==
  \A i, j \in 1..Len(list) : list[i].name = list[j].name => i = j

\* C8: the tool listing never holds two entries of one name, and a successful
\* registerTool leaves exactly the registered descriptor under its name: it
\* replaces the entry of a name that is already listed without changing the
\* number of entries (a new name adds one entry), and leaves the entries of
\* the other names as they are.
C8_LaterRegistrationWins ==
  [][/\ NamesOnce(listTools(tools'))
     /\ (last'.op = "registerTool" /\ last'.completion.type = "return") =>
          LET tool == last'.arg
              before == listTools(tools)
              after == listTools(tools')
          IN /\ {t \in Range(after) : t.name = tool.name} = {tool}
             /\ Len(after) = IF \E t \in Range(before) : t.name = tool.name
                               THEN Len(before) ELSE Len(before) + 1
             /\ {t \in Range(after) : t.name # tool.name}
                  = {t \in Range(before) : t.name # tool.name}]_vars

\* C8 witness: the tool registered last is listed first and another tool
\* after it, so its name was listed when it was registered again
C8_Witness ==
  /\ last.op = "registerTool"
  /\ last.completion.type = "return"
  /\ Len(tools) = 2
  /\ listTools(tools)[1] = last.arg
  /\ last.arg.handler = "throws"

---------------------------------------------------------------------------
(* Properties of the agent registration (under SpecMiddleware) *)

OwnedBy(m, id) == {i \in 1..Len(m) : m[i].value.agentId = id}

\* C9 (as stated): after unregisterAgent(id) of a registered id, whatever
\* registerAgent and unregisterAgent calls came before, neither the tool map
\* nor the resource map holds an entry whose agentId is id.
C9_UnregisterLeavesNoOwnedEntry ==
  [][\A id \in AgentIds :
       (MapHas(agents, id) /\ UnregisterAgent(id)) =>
         /\ OwnedBy(tools', id) = {}
         /\ OwnedBy(resources', id) = {}]_vars

InRegistry(m, list) ==
  \A i \in 1..Len(list) :
    /\ MapHas(m, list[i].name)
    /\ MapGet(m, list[i].name) \in {d \in Range(list) : d.name = list[i].name}

\* C10: after registerAgent(id, agent) the agents map holds the given agent
\* under id, once, also when another agent was registered under id before,
\* and the registry holds, under its name, every tool and every resource of
\* the agent's lists.
C10_RegisterAgentStoresAgentAndCapabilities ==
  last.op = "registerAgent" =>
    /\ MapHas(agents, last.arg.id)
    /\ MapGet(agents, last.arg.id) = last.arg.agent
    /\ Len(SelectSeq(agents, LAMBDA e : e.key = last.arg.id)) = 1
    /\ InRegistry(tools, getTools(last.arg.agent))
    /\ InRegistry(resources, getResources(last.arg.agent))

\* C10 witness: the agent registered under an id has its tools in
\* the registry, which still holds a tool of the agent it replaced under that
\* id
C10_Witness ==
  \E id \in AgentIds :
    /\ last.op = "registerAgent"
    /\ last.arg.id = id
    /\ MapHas(agents, id)
    /\ getTools(MapGet(agents, id)) # <<>>
    /\ InRegistry(tools, getTools(MapGet(agents, id)))
    /\ \E i \in OwnedBy(tools, id) :
         tools[i].value \notin Range(getTools(MapGet(agents, id)))

---------------------------------------------------------------------------
(* Properties of the agent classes (under SpecAgent) *)

\* The lists of a new agent of the class of a after one initialize()
AfterFirstInitialize(a) ==
  initialize([This(a) EXCEPT !.tools = <<>>, !.resources = <<>>],
             AgentIdOf(a), "completes").this

\* C12 (as stated): after any number of initialize() calls, made directly or
\* by start(), the tool list and the resource list of an agent hold the
\* descriptors they held after the first call, no name more than once.
C12_InitializeIdempotent ==
  \A a \in Insts :
    /\ agentTools[a] \in {<<>>, AfterFirstInitialize(a).tools}
    /\ agentResources[a] \in {<<>>, AfterFirstInitialize(a).resources}

\* C13 (as stated): a start() call made while the agent is running emits
\* nothing and changes no state of the agent.
C13_SecondStartChangesNothing ==
  (last.op = "start" /\ last.before.running) =>
    /\ last.emitted = <<>>
    /\ last.completion = Return(undefined)
    /\ This(last.arg) = last.before

\* C14: stop() on an agent that is not running, an agent that was never
\* started among them, returns without failing, emits no event and leaves the
\* agent as it was: not running, its lists and its queue processor unchanged.
C14_StopOfNotRunningIsNoOp ==
  (last.op = "stop" /\ ~last.before.running) =>
    /\ last.completion = Return(undefined)
    /\ last.emitted = <<>>
    /\ ~running[last.arg]
    /\ This(last.arg) = last.before

\* C14 witness: stop() has been called on an initialized content-analysis
\* agent whose queue processor was never started
C14_Witness ==
  /\ last.op = "stop"
  /\ AgentIdOf(last.arg) = "content-analysis"
  /\ queueInterval[last.arg] = "undefined"
  /\ agentTools[last.arg] # <<>>
  /\ ~running[last.arg]

\* C15: when initialize() throws during start(), start() throws the same
\* error, the agent is not running afterwards, no 'started' event is emitted
\* and no queue processor is started.
C15_InitializeFailurePropagates ==
  (last.op = "start" /\ ~last.before.running /\ last.outcome = "throws") =>
    /\ last.completion.type = "throw"
    /\ last.completion =
         initialize(last.before, AgentIdOf(last.arg), "throws").completion
    /\ ~running[last.arg]
    /\ \A i \in 1..Len(last.emitted) : last.emitted[i] # "started"
    /\ timers[last.arg] = last.before.timers
    /\ queueInterval[last.arg] = last.before.queueInterval

\* C15 witness: a start() of a content-analysis agent has thrown
C15_Witness ==
  /\ last.op = "start"
  /\ last.completion.type = "throw"
  /\ AgentIdOf(last.arg) = "content-analysis"
  /\ ~running[last.arg]

\* C16 (as stated): when stop() of a content-analysis agent has completed,
\* none of its intervals remains scheduled.
C16_NoTimerSurvivesStop ==
  (last.op = "stop" /\ last.completion.type = "return") => timers[last.arg] = 0

---------------------------------------------------------------------------
(* Properties of the application (under SpecApp) *)

\* Every name of the lists of agent a is a key of the registry
NamesRegistered(a) ==
  /\ \A j \in 1..Len(agentTools[a]) : MapHas(tools, agentTools[a][j].name)
  /\ \A j \in 1..Len(agentResources[a]) : MapHas(resources, agentResources[a][j].name)

\* C11: while the application is started, every tool name and every resource
\* name in the lists of every agent registered in the middleware or stored in
\* the application is a key of the capability registry, the names that an
\* initialize() after registerAgent (the one of start()) has added included.
C11_ListedNamesAreRegistered ==
  app_started =>
    /\ \A i \in 1..Len(agents) : NamesRegistered(agents[i].value)
    /\ \A i \in 1..Len(app_agents) : NamesRegistered(app_agents[i].value)

\* C11 witness: the application is started and a registered agent has run
\* initialize() again after its registration
C11_Witness ==
  /\ app_started
  /\ \E i \in 1..Len(agents) :
       /\ Len(agentTools[agents[i].value]) > ToolsPerInitialize(agents[i].key)
       /\ running[agents[i].value]
       /\ NamesRegistered(agents[i].value)

\* The number of events of last.emitted that went to agent a
EmittedTo(a) == Len(SelectSeq(last.emitted, LAMBDA e : e.agent = a))

StartCalls(m) == [i \in 1..Len(m) |-> [op |-> "start", agent |-> m[i].value]]
StopCalls(m) ==
  Append(Reverse([i \in 1..Len(m) |-> [op |-> "stop", agent |-> m[i].value]]),
         [op |-> "shutdown", agent |-> 0])

\* C18: a start() that starts the application starts the agents of its map
\* one after another in the order of the map; a stop() of the started
\* application that completes stops them in the reverse order and shuts the
\* middleware down after the last stop.
C18_StartOrderReverseStopOrder ==
  /\ (last.op \in {"app.start", "main"} /\ ~last.before.app_started /\ app_started) =>
       last.calls = StartCalls(app_agents)
  /\ (last.op = "app.stop" /\ last.before.app_started
        /\ last.completion.type = "return") =>
       /\ last.calls = StopCalls(app_agents)
       /\ ~app_started

\* C18 witness: a stop() of the application has stopped two agents and shut
\* the middleware down
C18_Witness ==
  /\ last.op = "app.stop"
  /\ last.completion.type = "return"
  /\ Len(last.calls) = 3
  /\ ~app_started

\* C19 (as stated): when the stop() of an agent fails during the stop() of
\* the started application, every other agent is stopped all the same and
\* the middleware is shut down.
C19_StopContinuesOnError ==
  (/\ last.op = "app.stop"
   /\ last.before.app_started
   /\ last.completion.type = "throw"
   /\ last.calls[Len(last.calls)].op = "stop") =>
    /\ \A i \in 1..Len(app_agents) :
         app_agents[i].value # last.calls[Len(last.calls)].agent =>
           ~running[app_agents[i].value]
    /\ ~initialized

\* C20 (as stated): a shutdown of the application that is not started,
\* because its start() failed partway, stops every agent that is running,
\* the shutdown by the handlers of uncaughtException and unhandledRejection
\* before the process exits included.
C20_ShutdownAfterPartialStartStopsAgents ==
  (last.op \in {"app.stop", "uncaughtException", "SIGINT"}
     /\ ~last.before.app_started) =>
    \A a \in Insts : ~running[a]

---------------------------------------------------------------------------
(* Further properties of the agent registration (under SpecMiddleware) *)

\* The entries of registry map m whose owner is a registered agent other
\* than id
OwnedByOther(m, id) ==
  {m[i] : i \in {j \in 1..Len(m) :
                   /\ m[j].value.agentId # id
                   /\ MapHas(agents, m[j].value.agentId)}}

\* C25 (as stated): unregisterAgent(id) of a registered id leaves in the
\* registry every tool and every resource whose owner is another agent that
\* is registered, also when the two agents list a tool or a resource of the
\* same name.
C25_UnregisterKeepsEntriesOfOthers ==
  [][\A id \in AgentIds :
       (MapHas(agents, id) /\ UnregisterAgent(id)) =>
         /\ OwnedByOther(tools, id) \subseteq Range(tools')
         /\ OwnedByOther(resources, id) \subseteq Range(resources')]_vars

\* Every descriptor of registry map m is in the list, given by lists, of an
\* agent of the middleware's map
Listed(m, lists) ==
  \A i \in 1..Len(m) :
    \E j \in 1..Len(agents) : m[i].value \in Range(lists[agents[j].value])

\* C26 (as stated): whatever registerAgent and unregisterAgent calls were
\* made, every tool and every resource of the registry is in the list of an
\* agent that the middleware's map holds.
C26_NoOrphanedCapabilities ==
  /\ Listed(tools, agentTools)
  /\ Listed(resources, agentResources)

---------------------------------------------------------------------------
(* Further properties of the application (under SpecApp) *)

\* The number of 'analysis-event' events of last.emitted that went to agent a
AnalysisEventsTo(a) ==
  Len(SelectSeq(last.emitted, LAMBDA e : e.agent = a /\ e.event = "analysis-event"))

\* C27 (as stated): whatever start() and stop() calls of the application came
\* before, an 'analysis-completed' event of the content-analysis agent makes
\* at most one 'analysis-event' go to each other agent, and none to the
\* content-analysis agent itself.
C27_OneAnalysisEventPerCompletion ==
  (last.op = "tick" /\ last.emitted # <<>>) =>
    \A a \in Insts :
      AnalysisEventsTo(a) <= IF AgentIdOf(a) = AgentIdOf(last.arg) THEN 0 ELSE 1

\* C28 (as stated): whatever start() and stop() calls of the application were
\* made, the middleware is initialized while the application is started.
C28_StartedImpliesMiddlewareInitialized ==
  app_started => initialized

---------------------------------------------------------------------------
(* Properties of the queue of the content-analysis agent *)

\* C24 (under SpecAgent): whatever intervals the start() calls have
\* scheduled, a callback takes a task only when no task is being processed,
\* the task it takes is the oldest one of the queue, the tasks behind it keep
\* their order, and a task is being processed exactly while
\* processingAnalysis is set.
C24_QueueFifoOneAtATime ==
  /\ \A a \in Insts : processingAnalysis[a] <=> task[a] # 0
  /\ last.op = "tickBegin" =>
       /\ ~last.before.processingAnalysis
       /\ last.before.task = 0
       /\ task[last.arg] = Head(last.before.analyzeQueue)
       /\ analyzeQueue[last.arg] = Tail(last.before.analyzeQueue)

\* C24 witness: a callback has taken the first of two queued tasks of an
\* agent that has two intervals scheduled
C24_Witness ==
  /\ last.op = "tickBegin"
  /\ last.before.timers >= 2
  /\ Len(last.before.analyzeQueue) >= 2
  /\ task[last.arg] = last.before.analyzeQueue[1]
  /\ analyzeQueue[last.arg] = <<last.before.analyzeQueue[2]>>

\* C29 (under SpecQueue): a callback that ends, with a task that completed or
\* a task that threw, leaves processingAnalysis reset, and emits nothing for
\* the task that threw; and a queued task is taken from the queue, and its
\* processing ends, unless the agent stops running.
C29_QueueDrains ==
  /\ [](last.op = "tick" =>
          /\ ~processingAnalysis[last.arg]
          /\ last.outcome = "throws" => last.emitted = <<>>)
  /\ \A t \in Tasks :
       /\ (t \in Range(analyzeQueue[QueueAgent]))
            ~> (task[QueueAgent] = t \/ ~running[QueueAgent])
       /\ (task[QueueAgent] = t) ~> (task[QueueAgent] # t)

\* C29 witness: the processing of a task has ended with a throw while the
\* agent is running and another task is queued
C29_Witness ==
  /\ last.op = "tick"
  /\ last.outcome = "throws"
  /\ running[QueueAgent]
  /\ analyzeQueue[QueueAgent] # <<>>

---------------------------------------------------------------------------
(* Properties of the signal handlers (under SpecSignals) *)

\* C30 (as stated): when the handler of a signal calls stop() while the stop()
\* of the handler of an earlier signal is in progress, server.shutdown() and
\* transport.close() are called at most once.
C30_ShutdownAtMostOnce ==
  /\ serverShutdowns <= 1
  /\ transportCloses <= 1

---------------------------------------------------------------------------
(* Properties of the analysis results (under SpecAnalysis, SpecSentiment) *)

\* C21 (as stated): after N analysis operations on a new agent, whatever
\* their mix, a request for the results that gives no type reports total = N.
C21_TotalIsNumberOfAnalyses ==
  (last.op = "getAnalysisResults" /\ last.arg.type = "") =>
    last.completion.value.content.total = analyses

\* The stored results, the most recently performed first
RECURSIVE MostRecentFirst(_)
MostRecentFirst(entries) ==
  IF entries = {} THEN <<>>
  ELSE LET e == CHOOSE x \in entries : \A y \in entries : y.performed <= x.performed
       IN <<e>> \o MostRecentFirst(entries \ {e})

\* C22 (as stated): a request with limit and offset returns
\* min(limit, max(total - offset, 0)) entries: the entries from offset on of
\* the stored results of the requested type, the most recently performed
\* first, also among results of the same timestamp.
C22_PageOfMostRecentFirst ==
  last.op = "getAnalysisResults" =>
    LET content == last.completion.value.content
        stored == {[id |-> analysisResults[i].key,
                    type |-> analysisResults[i].value.type,
                    timestamp |-> analysisResults[i].value.timestamp,
                    performed |-> analysisResults[i].value.performed] :
                     i \in 1..Len(analysisResults)}
        requested == {e \in stored : last.arg.type \in {"", e.type}}
        count == Min(content.limit, Max(content.total - content.offset, 0))
    IN /\ content.total = Cardinality(requested)
       /\ Len(content.results) = count
       /\ content.results =
            SubSeq(MostRecentFirst(requested), content.offset + 1,
                   content.offset + count)

\* The words of a text that match the positive list, and the negative list
PositiveCount(text) == Cardinality({i \in 1..Len(text) : text[i].positive})
NegativeCount(text) == Cardinality({i \in 1..Len(text) : text[i].negative})

\* C23 (as stated): for a text analysed by analyzeText with the default
\* options, more words matching the positive list than words matching the
\* negative list make sentiment.label "positive".
C23_MorePositiveIsPositive ==
  (/\ last.op = "analyzeText"
   /\ last.arg.extractSentiment
   /\ PositiveCount(last.arg.text) > NegativeCount(last.arg.text)) =>
    last.completion.value.content.sentiment.label = "positive"

\* C23 (amended): with p words matching the positive list and n words
\* matching the negative list, p > n, the label is "positive" when
\* (p - n) / (p + n) > 0.2, which is 2p > 3n, and "neutral" otherwise.
C23_PositiveAboveThreshold ==
  (/\ last.op = "analyzeText"
   /\ last.arg.extractSentiment
   /\ PositiveCount(last.arg.text) > NegativeCount(last.arg.text)) =>
    last.completion.value.content.sentiment.label =
      IF 2 * PositiveCount(last.arg.text) > 3 * NegativeCount(last.arg.text)
        THEN "positive" ELSE "neutral"

\* C23 witness: a text with more positive than negative words, and one
\* negative word at least, has been given the label "positive"
C23_Witness ==
  /\ last.op = "analyzeText"
  /\ last.arg.extractSentiment
  /\ PositiveCount(last.arg.text) > NegativeCount(last.arg.text)
  /\ NegativeCount(last.arg.text) >= 1
  /\ last.completion.value.content.sentiment.label = "positive"

====
